---- MODULE Spec2Model ----
(***************************************************************************)
(* Model of the refbooks application (terminology/refbooks): the three     *)
(* tables of models.py, the writes of the administration site (admin.py)   *)
(* that create, change and delete their rows, the clock read by            *)
(* now().date(), and the three read views of views.py.                     *)
(*                                                                         *)
(* A table is the sequence of its rows in the order in which the storage   *)
(* engine yields them to a query that scans the table without a total      *)
(* ORDER BY.  SQL leaves that order open, so an insert may place the new   *)
(* row anywhere in it; it changes only with a write.  The catalog filtered *)
(* by date is a join with no ORDER BY either: the engine reads the         *)
(* refbooks in the order of the access path it plans, which the source     *)
(* does not fix, so the statement may yield them in any order.             *)
(*                                                                         *)
(* views.py opens no transaction: a view sends its queries to the store as *)
(* separate statements, and writes and midnight may fall between them.     *)
(* The model serves listEntries and validateEntry one statement a step,    *)
(* the reading of the clock being a step of its own.                       *)
(***************************************************************************)
EXTENDS Integers, Sequences, FiniteSets, TLC

(* ---------------------------- bounds ---------------------------------- *)
MaxRefbooks == 2      \* refbook ids handed out by the autoincrement key
MaxVersions == 2      \* version ids handed out by the autoincrement key
MaxRows     == 6      \* the size of the store: see RowsCreated
MaxTicks    == 1      \* midnights the clock passes
RefbookRows == 2      \* what a refbook counts for in the size of the store

(* ---------------------------- dates ----------------------------------- *)
Date(y, m, d) == [year |-> y, month |-> m, day |-> d]

IsLeap(y) == (y % 4 = 0) /\ ((y % 100 # 0) \/ (y % 400 = 0))

DaysInMonth(y, m) ==
    IF m = 2 THEN (IF IsLeap(y) THEN 29 ELSE 28)
    ELSE IF m \in {4, 6, 9, 11} THEN 30 ELSE 31

\* datetime.date(year, month, day) accepts exactly these triples
ValidDate(y, m, d) ==
    /\ y >= 1 /\ y <= 9999
    /\ m >= 1 /\ m <= 12
    /\ d >= 1 /\ d <= DaysInMonth(y, m)

\* date comparison (start_date__lte): lexicographic on (year, month, day)
DateLE(a, b) ==
    \/ a.year < b.year
    \/ a.year = b.year /\ a.month < b.month
    \/ a.year = b.year /\ a.month = b.month /\ a.day <= b.day

DateLT(a, b) == DateLE(a, b) /\ a # b

\* the calendar day after d (the clock passing midnight)
NextDay(d) ==
    IF d.day < DaysInMonth(d.year, d.month) THEN Date(d.year, d.month, d.day + 1)
    ELSE IF d.month < 12 THEN Date(d.year, d.month + 1, 1)
    ELSE Date(d.year + 1, 1, 1)

RECURSIVE AddDays(_, _)
AddDays(d, n) == IF n = 0 THEN d ELSE AddDays(NextDay(d), n - 1)

FirstDay == Date(2024, 2, 29)

\* start dates the administrator enters
StartDates == {Date(2024, 2, 29), Date(2024, 3, 1)}

(* ---------------------------- input sets ------------------------------ *)
\* the administrator's entries (the fixture of tests.py, RefbookBaseTest.setUp)
RefbookCode(n) == "REF" \o ToString(n)
RefbookName(n) == "Refbook " \o ToString(n)
RefbookEntries == {[code |-> RefbookCode(n), name |-> RefbookName(n)] : n \in 1..MaxRefbooks}
VersionLabels == {"1.0", "2.0"}
ItemEntries ==
    { [code |-> "ITEM1", value |-> "Value 1 old"],
      [code |-> "ITEM1", value |-> "Value 1"],
      [code |-> "ITEM2", value |-> "Value 2"] }

(* ---------------------------- state ----------------------------------- *)
VARIABLES
    refbooks,        \* table Refbook: rows [id, code, name]
    versions,        \* table RefbookVersion: rows [id, refbook, version, start_date]
    items,           \* table RefbookItem: rows [version, code, value]
    nextRefbookId,   \* autoincrement key of Refbook
    nextVersionId,   \* autoincrement key of RefbookVersion
    today,           \* the value now().date() returns
    last,            \* the last request answered with its response, or NoExchange
    inflight         \* the request being served statement by statement, or Idle

vars  == <<refbooks, versions, items, nextRefbookId, nextVersionId, today, last, inflight>>

NoExchange == [op |-> "none"]

Idle == [pc |-> "idle"]

(* ---------------------------- sequences ------------------------------- *)
Range(s) == {s[i] : i \in 1..Len(s)}

\* the row placed at position pos of the storage order
InsertAt(s, pos, row) == SubSeq(s, 1, pos - 1) \o <<row>> \o SubSeq(s, pos, Len(s))

(* ---------------------------- requests ------------------------------ *)
\* a query parameter: missing from the query string, or given with a text
Absent   == [given |-> FALSE]
Given(t) == [given |-> TRUE, text |-> t]

\* Truthy as 'is not None': an empty text counts as given
TruthyNotNone(p) == p.given

\* Python truth of query_params.get(name): None and "" are false
Truthy(p) == p.given /\ p.text # ""

\* the same for a parameter held as its sequence of characters
TruthyChars(p) == p.given /\ p.text # <<>>

Response(status, data) == [status |-> status, data |-> data]

HTTP_200_OK == 200
HTTP_400_BAD_REQUEST == 400

\* rest_framework.exceptions.NotFound(detail): status 404, detail as the body
NotFoundResponse(data) == Response(404, data)

\* an exception no handler catches: status 500
ServerErrorResponse(e) == Response(500, [exception |-> e])

(* ------------------- django.utils.dateparse.parse_date ---------------- *)
(* A text is the sequence of the code points of its characters: "2024-02-29" *)
(* is <<50, 48, 50, 52, 45, 48, 50, 45, 50, 57>>.                            *)
Hyphen   == 45
LetterW  == 87
LineFeed == 10

\* the code points of the digits zero of Unicode 14.0 (unicodedata of CPython
\* 3.11): every character of category Nd is one of the ten that start there
NdZeros ==
    { 48, 1632, 1776, 1984, 2406, 2534, 2662, 2790, 2918, 3046, 3174, 3302, 3430,
      3558, 3664, 3792, 3872, 4160, 4240, 6112, 6160, 6470, 6608, 6784, 6800, 6992,
      7088, 7232, 7248, 42528, 43216, 43264, 43472, 43504, 43600, 44016, 65296,
      66720, 68912, 69734, 69872, 69942, 70096, 70384, 70736, 70864, 71248, 71360,
      71472, 71904, 72016, 72784, 73040, 73120, 92768, 92864, 93008, 120782,
      120792, 120802, 120812, 120822, 123200, 123632, 125264, 130032 }

\* \d of a str pattern: the characters of category Nd
Digits == UNION {z..(z + 9) : z \in NdZeros}

\* int() of a decimal digit
DigitValue(c) == CHOOSE n \in 0..9 : (c - n) \in NdZeros

AllDigits(s) == \A i \in 1..Len(s) : s[i] \in Digits

\* int() of a string of decimal digits
RECURSIVE ToInt(_)
ToInt(s) ==
    IF s = <<>> THEN 0
    ELSE 10 * ToInt(SubSeq(s, 1, Len(s) - 1)) + DigitValue(s[Len(s)])

NoDate         == [kind |-> "None"]
DateValueError == [kind |-> "ValueError"]
SomeDate(d)    == [kind |-> "date", date |-> d]

\* datetime.date(year, month, day): the date, or ValueError
MakeDate(y, m, d) == IF ValidDate(y, m, d) THEN SomeDate(Date(y, m, d)) ELSE DateValueError

(* datetime.date.fromisoformat as CPython 3.11 has it (_datetimemodule.c): it   *)
(* reads the UTF-8 bytes of the text, takes texts of 7, 8 or 10 bytes, parses  *)
(* YYYY-MM-DD, YYYYMMDD, YYYY-Www, YYYYWww, YYYY-Www-D and YYYYWwwD from the   *)
(* front and does not look at what follows the last field.                   *)

\* the bytes of a character in UTF-8
Utf8Char(c) ==
    IF c < 128 THEN <<c>>
    ELSE IF c < 2048 THEN <<192 + (c \div 64), 128 + (c % 64)>>
    ELSE IF c < 65536
         THEN <<224 + (c \div 4096), 128 + ((c \div 64) % 64), 128 + (c % 64)>>
    ELSE <<240 + (c \div 262144), 128 + ((c \div 4096) % 64),
           128 + ((c \div 64) % 64), 128 + (c % 64)>>

RECURSIVE Utf8(_)
Utf8(s) == IF s = <<>> THEN <<>> ELSE Utf8Char(s[1]) \o Utf8(Tail(s))

\* the byte at position i of a C string: NUL behind its end
ByteAt(b, i) == IF i <= Len(b) THEN b[i] ELSE 0

\* parse_digits: the number written by the n ASCII digits from position p, or -1
ParseDigits(b, p, n) ==
    IF \A i \in p..(p + n - 1) : ByteAt(b, i) \in 48..57
    THEN ToInt(SubSeq(b, p, p + n - 1))
    ELSE -1

\* days_before_year, days_before_month, ymd_to_ord: the ordinal of a date,
\* 0001-01-01 being day 1
DaysBeforeYear(y) ==
    (y - 1) * 365 + ((y - 1) \div 4) - ((y - 1) \div 100) + ((y - 1) \div 400)

RECURSIVE DaysBeforeMonth(_, _)
DaysBeforeMonth(y, m) ==
    IF m = 1 THEN 0 ELSE DaysBeforeMonth(y, m - 1) + DaysInMonth(y, m - 1)

YmdToOrd(y, m, d) == DaysBeforeYear(y) + DaysBeforeMonth(y, m) + d

\* weekday of a date, Monday being 0
Weekday(y, m, d) == (YmdToOrd(y, m, d) + 6) % 7

\* iso_week1_monday: the ordinal of the Monday that starts ISO week 1 of year y
IsoWeek1Monday(y) ==
    LET first_day     == YmdToOrd(y, 1, 1)
        first_weekday == (first_day + 6) % 7
        week1_monday  == first_day - first_weekday
    IN  IF first_weekday > 3 THEN week1_monday + 7 ELSE week1_monday

\* ord_to_ymd and the date made of it; an ordinal before 0001-01-01 or behind
\* 9999-12-31 is no date
OrdToDate(ordinal, near) ==
    LET hits == {t \in ((near - 1)..(near + 1)) \X (1..12) \X (1..31) :
                    /\ ValidDate(t[1], t[2], t[3])
                    /\ YmdToOrd(t[1], t[2], t[3]) = ordinal}
    IN  IF hits = {} THEN DateValueError
        ELSE LET t == CHOOSE u \in hits : TRUE IN SomeDate(Date(t[1], t[2], t[3]))

\* iso_to_ymd: the date of ISO year, week and day, or ValueError
IsoToYmd(iso_year, iso_week, iso_day) ==
    LET first_weekday == Weekday(iso_year, 1, 1)
        has53 == first_weekday = 3 \/ (first_weekday = 2 /\ IsLeap(iso_year))
    IN  IF iso_year < 1 THEN DateValueError
        ELSE IF iso_week <= 0 \/ iso_week > 53 \/ (iso_week = 53 /\ ~has53) THEN DateValueError
        ELSE IF iso_day <= 0 \/ iso_day >= 8 THEN DateValueError
        ELSE OrdToDate(IsoWeek1Monday(iso_year) + (iso_week - 1) * 7 + iso_day - 1, iso_year)

\* parse_isoformat_date on the bytes b
ParseIsoformatDate(b) ==
    LET year == ParseDigits(b, 1, 4)
        uses_separator == ByteAt(b, 5) = Hyphen
        p == IF uses_separator THEN 6 ELSE 5
    IN  IF year < 0 THEN DateValueError
        ELSE IF ByteAt(b, p) = LetterW
        THEN LET iso_week == ParseDigits(b, p + 1, 2)
                 q        == p + 3
                 r        == IF uses_separator THEN q + 1 ELSE q
                 iso_day  == IF q - 1 < Len(b) THEN ParseDigits(b, r, 1) ELSE 1
             IN  IF iso_week < 0 THEN DateValueError
                 ELSE IF q - 1 < Len(b) /\ uses_separator /\ ByteAt(b, q) # Hyphen
                 THEN DateValueError
                 ELSE IF iso_day < 0 THEN DateValueError
                 ELSE IsoToYmd(year, iso_week, iso_day)
        ELSE LET month == ParseDigits(b, p, 2)
                 q     == p + 2
                 r     == IF uses_separator THEN q + 1 ELSE q
                 day   == ParseDigits(b, r, 2)
             IN  IF month < 0 THEN DateValueError
                 ELSE IF uses_separator /\ ByteAt(b, q) # Hyphen THEN DateValueError
                 ELSE IF day < 0 THEN DateValueError
                 ELSE MakeDate(year, month, day)

\* datetime.date.fromisoformat(s): the date, or ValueError
FromIsoFormat(s) ==
    LET b == Utf8(s)
    IN  IF Len(b) \in {7, 8, 10} THEN ParseIsoformatDate(b) ELSE DateValueError

\* the text date_re looks at: "$" also matches before one newline that ends value
DateReText(value) ==
    IF value # <<>> /\ value[Len(value)] = LineFeed
    THEN SubSeq(value, 1, Len(value) - 1)
    ELSE value

\* date_re = (?P<year>\d{4})-(?P<month>\d{1,2})-(?P<day>\d{1,2})$ matched from the
\* start of s: the position of the second dash when s matches, 0 when it does not
DateReMatch(s) ==
    LET ok(k) == /\ Len(s) >= k + 1 /\ Len(s) <= k + 2
                 /\ AllDigits(SubSeq(s, 1, 4))
                 /\ s[5] = Hyphen
                 /\ s[k] = Hyphen
                 /\ AllDigits(SubSeq(s, 6, k - 1))
                 /\ AllDigits(SubSeq(s, k + 1, Len(s)))
    IN  IF ok(7) THEN 7 ELSE IF ok(8) THEN 8 ELSE 0

\* parse_date(value): a date; None when value is not well formatted; ValueError
\* when it is well formatted but no calendar date
parse_date(value) ==
    LET iso  == FromIsoFormat(value)
        text == DateReText(value)
        k    == DateReMatch(text)
    IN  IF iso.kind = "date" THEN iso
        ELSE IF k > 0
             THEN MakeDate(ToInt(SubSeq(text, 1, 4)),
                           ToInt(SubSeq(text, 6, k - 1)),
                           ToInt(SubSeq(text, k + 1, Len(text))))
             ELSE NoDate

(* ------------------- serializers.py ----------------------------------- *)
\* RefbookSerializer: fields id, code, name
RefbookSerializer(rows) ==
    [i \in 1..Len(rows) |-> [id |-> rows[i].id, code |-> rows[i].code, name |-> rows[i].name]]

\* RefbookItemSerializer: fields code, value
RefbookItemSerializer(rows) ==
    [i \in 1..Len(rows) |-> [code |-> rows[i].code, value |-> rows[i].value]]

(* ------------------- RefbookListView ---------------------------------- *)
\* Distinct left out: the joined rows as they are
DistinctNone(rows) == rows

\* .distinct(): each row once, at its first place
RECURSIVE Distinct(_)
Distinct(rows) ==
    IF rows = <<>> THEN <<>>
    ELSE LET front == Distinct(SubSeq(rows, 1, Len(rows) - 1))
             x     == rows[Len(rows)]
         IN  IF x \in Range(front) THEN front ELSE Append(front, x)

\* the versions of refbook rb that filter(versions__start_date__lte=d) joins to it
VersionsOnOrBefore(rb, d) ==
    SelectSeq(versions, LAMBDA v : v.refbook = rb /\ DateLE(v.start_date, d))

\* Refbook joined with RefbookVersion: one row of the refbook per matching version
RECURSIVE JoinVersions(_, _)
JoinVersions(rows, d) ==
    IF rows = <<>> THEN <<>>
    ELSE LET r == rows[1]
             n == Len(VersionsOnOrBefore(r.id, d))
         IN  [i \in 1..n |-> r] \o JoinVersions(Tail(rows), d)

\* the orders in which a statement that names no order may read the rows of a
\* table: all of them
Orders(table) ==
    {[i \in 1..Len(table) |-> table[p[i]]] :
        p \in {q \in [1..Len(table) -> 1..Len(table)] : \A i, j \in 1..Len(table) : q[i] = q[j] => i = j}}

\* queryset.filter(versions__start_date__lte=parsed_date).distinct(): the
\* statement joins the versions to the refbooks, rows being the refbooks in the
\* order in which it reads them
FilterByDate(rows, d) == Distinct(JoinVersions(rows, d))

\* RefbookListView.get with get_queryset: the response and the store reads made;
\* plan is the order in which the statement filtered by date reads the refbooks
RefbookListView_get(date_param, plan) ==
    LET all    == refbooks
        parsed == IF TruthyChars(date_param) THEN parse_date(date_param.text) ELSE NoDate
    IN  IF parsed.kind = "ValueError"
        THEN [resp |-> ServerErrorResponse("ValueError"),
              queries |-> <<>>, version |-> 0]
        ELSE LET queryset == IF parsed.kind = "date" THEN FilterByDate(plan, parsed.date) ELSE all
             IN  [resp |-> Response(HTTP_200_OK, [refbooks |-> RefbookSerializer(queryset)]),
                  queries |-> <<"refbooks">>, version |-> 0]

(* ------------------- RefbookItemMixin --------------------------------- *)
Found(row)     == [ok |-> TRUE, row |-> row]
NotFound(data) == [ok |-> FALSE, resp |-> NotFoundResponse(data)]
ServerError(e) == [ok |-> FALSE, resp |-> ServerErrorResponse(e)]

\* get_refbook_or_404 without the lookup: a Refbook built from the id in the path
get_refbook_unchecked(refbook_id) ==
    Found([id |-> refbook_id])

\* Refbook.objects.only('id').get(id=refbook_id), DoesNotExist turned into 404
get_refbook_or_404(refbook_id) ==
    LET rows == SelectSeq(refbooks, LAMBDA r : r.id = refbook_id)
    IN  IF rows = <<>>
        THEN NotFound([error |-> "Refbook with ID '" \o ToString(refbook_id) \o "' not found."])
        ELSE Found([id |-> rows[1].id])

\* order_by('-start_date'): rows with equal start_date keep the storage order
RECURSIVE OrderByStartDateDesc(_)
OrderByStartDateDesc(rows) ==
    IF rows = <<>> THEN <<>>
    ELSE LET sorted == OrderByStartDateDesc(SubSeq(rows, 1, Len(rows) - 1))
             x      == rows[Len(rows)]
             \* x goes behind every row that does not start before it
             n      == Cardinality({i \in 1..Len(sorted) : DateLE(x.start_date, sorted[i].start_date)})
         IN  InsertAt(sorted, n + 1, x)

\* LatestVersion without start_date__lte: versions not yet in force are candidates
LatestVersionAnyDate(refbook, day) ==
    OrderByStartDateDesc(SelectSeq(versions, LAMBDA v : v.refbook = refbook.id))

\* RefbookVersion.objects.filter(refbook=refbook, start_date__lte=day)
\*     .order_by('-start_date'), of which first() takes the head
LatestVersion(refbook, day) ==
    OrderByStartDateDesc(
        SelectSeq(versions, LAMBDA v : v.refbook = refbook.id /\ DateLE(v.start_date, day)))

\* VersionByLabel restricted to the versions in force today
VersionByLabelInForce(refbook, label) ==
    SelectSeq(versions, LAMBDA v : /\ v.refbook = refbook.id /\ v.version = label
                                   /\ DateLE(v.start_date, today))

\* RefbookVersion.objects.get(refbook=refbook, version=version_param): the rows
\* that match
VersionByLabel(refbook, label) ==
    SelectSeq(versions, LAMBDA v : v.refbook = refbook.id /\ v.version = label)

\* _get_version_or_404: day is what now().date() returns during the call; with a
\* selector the row is fetched with only('id'), its other fields are deferred
get_version_or_404(refbook, version_param, day) ==
    IF Truthy(version_param)
    THEN LET rows == VersionByLabel(refbook, version_param.text)
         IN  IF rows = <<>>
             THEN NotFound([error |-> "Version '" \o version_param.text
                                        \o "' not found for the given refbook."])
             ELSE IF Len(rows) > 1 THEN ServerError("MultipleObjectsReturned")
             ELSE Found([id |-> rows[1].id])
    ELSE LET rows == LatestVersion(refbook, day)
         IN  IF rows = <<>>
             THEN NotFound([error |-> "No valid version found for the refbook ID '"
                                        \o ToString(refbook.id) \o "'."])
             ELSE Found(rows[1])

\* version.items: the rows of RefbookItem whose version is this one
VersionItems(version) == SelectSeq(items, LAMBDA i : i.version = version.id)

(* ------------------- RefbookItemListView ------------------------------ *)
\* RefbookItemListView.get with get_queryset, its statements run on one state of
\* the store
RefbookItemListView_get(refbook_id, version_param) ==
    LET refbook == get_refbook_or_404(refbook_id)
    IN  IF ~refbook.ok
        THEN [resp |-> refbook.resp, queries |-> <<"refbook">>, version |-> 0]
        ELSE LET version == get_version_or_404(refbook.row, version_param, today)
             IN  IF ~version.ok
                 THEN [resp |-> version.resp, queries |-> <<"refbook", "version">>, version |-> 0]
                 ELSE [resp |-> Response(HTTP_200_OK,
                                    [elements |-> RefbookItemSerializer(VersionItems(version.row))]),
                       queries |-> <<"refbook", "version", "prefetch", "items">>,
                       version |-> version.row.id]

(* ------------------- RefbookItemValidationView ------------------------ *)
\* ElementExists with the filter on code alone
ElementExistsByCode(version, code, value) ==
    SelectSeq(VersionItems(version), LAMBDA i : i.code = code) # <<>>

\* version.items.filter(code=code, value=value).exists()
ElementExists(version, code, value) ==
    SelectSeq(VersionItems(version), LAMBDA i : i.code = code /\ i.value = value) # <<>>

\* version.version read for the log record: a field of a row fetched with
\* only('id') is loaded from the store when it is first read, and the load fails
\* with RefbookVersion.DoesNotExist when the row is gone; a row fetched whole
\* holds the field
DeferredVersionLabel(version) ==
    LET rows == SelectSeq(versions, LAMBDA v : v.id = version.id)
    IN  IF rows = <<>> THEN ServerError("DoesNotExist") ELSE Found(rows[1])

\* RefbookItemValidationView.get, its statements run on one state of the store
RefbookItemValidationView_get(refbook_id, code, value, version_param) ==
    IF ~Truthy(code) \/ ~Truthy(value)
    THEN [resp |-> Response(HTTP_400_BAD_REQUEST,
                       [error |-> "Missing required parameters: code or/and value."]),
          queries |-> <<>>, version |-> 0]
    ELSE LET refbook == get_refbook_or_404(refbook_id)
         IN  IF ~refbook.ok
             THEN [resp |-> refbook.resp, queries |-> <<"refbook">>, version |-> 0]
             ELSE LET version == get_version_or_404(refbook.row, version_param, today)
                  IN  IF ~version.ok
                      THEN [resp |-> version.resp, queries |-> <<"refbook", "version">>,
                            version |-> 0]
                      ELSE LET element_exists == ElementExists(version.row, code.text, value.text)
                               ok == [resp |-> Response(HTTP_200_OK, [valid |-> element_exists]),
                                      queries |-> <<"refbook", "version", "prefetch", "items">>,
                                      version |-> version.row.id]
                           IN  IF ~Truthy(version_param) THEN ok
                               ELSE IF DeferredVersionLabel(version.row).ok
                               THEN [ok EXCEPT !.queries = Append(@, "version.version")]
                               ELSE [resp |-> DeferredVersionLabel(version.row).resp,
                                     queries |-> Append(ok.queries, "version.version"),
                                     version |-> version.row.id]
(* ------------------- the request in progress --------------------------- *)
(* A request in progress keeps what its statements returned (inflight).     *)
(* For the comparison with a service on one state of the store it also      *)
(* keeps a record that is no part of the program: the outcomes that the     *)
(* whole call, served at once, has on the states that the store and the     *)
(* clock go through while the request is served, and the pairs that the     *)
(* version resolved held when a write took it from the refbook of the       *)
(* request.                                                                 *)

\* the response the whole call gets from the store and the clock as they are
Instant(op, req) ==
    IF op = "listEntries"
    THEN RefbookItemListView_get(req.id, req.version).resp
    ELSE RefbookItemValidationView_get(req.id, req.code, req.value, req.version).resp

\* the outcome of a response: a failure with its body, a success without
Outcome(resp) == IF resp.status = HTTP_200_OK THEN [status |-> resp.status] ELSE resp

\* the outcomes of the whole call noted so far, with the one the call has on the
\* store and the clock as they are
Outcomes == inflight.outcomes \cup {Outcome(Instant(inflight.op, inflight.req))}

\* the version resolved by a listEntries request is, in the table vs, a
\* version of the refbook requested
Owned(vs) ==
    /\ inflight.op = "listEntries"
    /\ \E v \in Range(vs) : v.id = inflight.version.id /\ v.refbook = inflight.req.id

\* the (code, value) pairs of the items it holds in the table its
PairsIn(its) ==
    {[code |-> i.code, value |-> i.value] : i \in {j \in Range(its) : j.version = inflight.version.id}}

\* the pairs that the version resolved holds as a version of the refbook
\* requested: those it holds on the store as it is, or held when last it was a
\* version of that refbook
OwnPairs == IF Owned(versions) THEN PairsIn(items) ELSE inflight.held

\* a write (write = TRUE) or midnight falls into the request in progress, if there
\* is one: the request stays where it is; the outcome of the whole call on the
\* state that the write or midnight ends is noted, and the pairs of the version
\* resolved when the write takes it from the refbook requested
Noted(write) ==
    IF inflight = Idle
    THEN UNCHANGED inflight
    ELSE inflight' = [inflight EXCEPT !.written = @ \/ write, !.outcomes = Outcomes,
                                      !.held = IF Owned(versions') THEN {}
                                               ELSE IF Owned(versions) THEN PairsIn(items)
                                               ELSE @]

(* ------------------- writes of the administration (models.py, admin.py) - *)
(* A write that falls into the request in progress is noted there (Noted).  *)
(* A client that keeps an exchange keeps it to repeat the call with no      *)
(* write after it: the writes that follow an answered call are made once    *)
(* the client has dropped the exchange (Forget).                            *)
\* the size of the store: keys handed out so far and item rows held, a refbook
\* key counted RefbookRows times
RowsCreated == RefbookRows * (nextRefbookId - 1) + (nextVersionId - 1) + Len(items)

\* the table with the row of that id replaced, at its place
Replaced(table, id, row) ==
    [i \in 1..Len(table) |-> IF table[i].id = id THEN row ELSE table[i]]

\* Refbook: code is unique=True
UniqueRefbookCode(rb, code) ==
    \A r \in Range(refbooks) : r.id # rb => r.code # code

\* RefbookAdmin, add view: Refbook.objects.create(code, name)
CreateRefbook(code, name, pos) ==
    /\ last = NoExchange
    /\ nextRefbookId <= MaxRefbooks
    /\ RowsCreated + RefbookRows <= MaxRows
    /\ UniqueRefbookCode(nextRefbookId, code)
    /\ refbooks' = InsertAt(refbooks, pos, [id |-> nextRefbookId, code |-> code, name |-> name])
    /\ nextRefbookId' = nextRefbookId + 1
    /\ UNCHANGED <<versions, items, nextVersionId, today, last>>
    /\ Noted(TRUE)

\* RefbookAdmin, change view: code and name of the row saved
UpdateRefbook(rb, code, name) ==
    /\ last = NoExchange
    /\ \E r \in Range(refbooks) : r.id = rb
    /\ UniqueRefbookCode(rb, code)
    /\ refbooks' = Replaced(refbooks, rb, [id |-> rb, code |-> code, name |-> name])
    /\ UNCHANGED <<versions, items, nextRefbookId, nextVersionId, today, last>>
    /\ Noted(TRUE)

\* UniqueRefbookVersion with the constraint left out of Meta
UniqueRefbookVersionDropped(ver, rb, label) == TRUE

\* unique_refbook_version: no other row has this refbook and this label
UniqueRefbookVersion(ver, rb, label) ==
    \A v \in Range(versions) : v.id # ver => ~(v.refbook = rb /\ v.version = label)

\* RefbookVersionAdmin and RefbookVersionInline, add:
\* RefbookVersion.objects.create(refbook, version, start_date) with the foreign
\* key to an existing refbook
CreateVersion(rb, label, start, pos) ==
    /\ last = NoExchange
    /\ nextVersionId <= MaxVersions
    /\ RowsCreated < MaxRows
    /\ \E r \in Range(refbooks) : r.id = rb
    /\ UniqueRefbookVersion(nextVersionId, rb, label)
    /\ versions' = InsertAt(versions, pos,
                       [id |-> nextVersionId, refbook |-> rb, version |-> label, start_date |-> start])
    /\ nextVersionId' = nextVersionId + 1
    /\ UNCHANGED <<refbooks, items, nextRefbookId, today, last>>
    /\ Noted(TRUE)

\* RefbookVersionAdmin and RefbookVersionInline, change: refbook, label and
\* start_date of the row saved
UpdateVersion(ver, rb, label, start) ==
    /\ last = NoExchange
    /\ \E v \in Range(versions) : v.id = ver
    /\ \E r \in Range(refbooks) : r.id = rb
    /\ UniqueRefbookVersion(ver, rb, label)
    /\ versions' = Replaced(versions, ver,
                       [id |-> ver, refbook |-> rb, version |-> label, start_date |-> start])
    /\ UNCHANGED <<refbooks, items, nextRefbookId, nextVersionId, today, last>>
    /\ Noted(TRUE)

\* unique_version_code: no row but the one at place k (0: none) has this version
\* and this code
UniqueVersionCode(k, ver, code) ==
    \A i \in 1..Len(items) : i # k => ~(items[i].version = ver /\ items[i].code = code)

\* RefbookItemAdmin, add: RefbookItem.objects.create(version, code, value) with
\* the foreign key to an existing version
CreateItem(ver, code, value) ==
    /\ last = NoExchange
    /\ RowsCreated < MaxRows
    /\ \E v \in Range(versions) : v.id = ver
    /\ UniqueVersionCode(0, ver, code)
    /\ items' = Append(items, [version |-> ver, code |-> code, value |-> value])
    /\ UNCHANGED <<refbooks, versions, nextRefbookId, nextVersionId, today, last>>
    /\ Noted(TRUE)

\* RefbookItemAdmin, change: version, code and value of the row at place k saved
UpdateItem(k, ver, code, value) ==
    /\ last = NoExchange
    /\ k \in 1..Len(items)
    /\ \E v \in Range(versions) : v.id = ver
    /\ UniqueVersionCode(k, ver, code)
    /\ items' = [items EXCEPT ![k] = [version |-> ver, code |-> code, value |-> value]]
    /\ UNCHANGED <<refbooks, versions, nextRefbookId, nextVersionId, today, last>>
    /\ Noted(TRUE)

\* RefbookItemAdmin, delete: the row at place k
DeleteItem(k) ==
    /\ last = NoExchange
    /\ k \in 1..Len(items)
    /\ items' = SubSeq(items, 1, k - 1) \o SubSeq(items, k + 1, Len(items))
    /\ UNCHANGED <<refbooks, versions, nextRefbookId, nextVersionId, today, last>>
    /\ Noted(TRUE)

\* ItemsAfterDelete without the cascade: the items of deleted versions stay
ItemsKept(deadVersions) == items

\* on_delete=CASCADE from RefbookItem.version
ItemsAfterDelete(deadVersions) ==
    SelectSeq(items, LAMBDA i : i.version \notin deadVersions)

\* RefbookVersionAdmin, delete: the version and, by the cascade, its items
DeleteVersion(ver) ==
    /\ last = NoExchange
    /\ \E v \in Range(versions) : v.id = ver
    /\ versions' = SelectSeq(versions, LAMBDA v : v.id # ver)
    /\ items' = ItemsAfterDelete({ver})
    /\ UNCHANGED <<refbooks, nextRefbookId, nextVersionId, today, last>>
    /\ Noted(TRUE)

\* RefbookAdmin, delete: the refbook, its versions (on_delete=CASCADE) and their
\* items
DeleteRefbook(rb) ==
    /\ last = NoExchange
    /\ \E r \in Range(refbooks) : r.id = rb
    /\ refbooks' = SelectSeq(refbooks, LAMBDA r : r.id # rb)
    /\ versions' = SelectSeq(versions, LAMBDA v : v.refbook # rb)
    /\ items' = ItemsAfterDelete({v.id : v \in {w \in Range(versions) : w.refbook = rb}})
    /\ UNCHANGED <<nextRefbookId, nextVersionId, today, last>>
    /\ Noted(TRUE)

\* the clock passes midnight
Tick ==
    /\ DateLT(today, AddDays(FirstDay, MaxTicks))
    /\ today' = NextDay(today)
    /\ UNCHANGED <<refbooks, versions, items, nextRefbookId, nextVersionId, last>>
    /\ Noted(FALSE)

Init ==
    /\ refbooks = <<>>
    /\ versions = <<>>
    /\ items = <<>>
    /\ nextRefbookId = 1
    /\ nextVersionId = 1
    /\ today = FirstDay
    /\ last = NoExchange
    /\ inflight = Idle

\* the add views of the administration site
AddView ==
    \/ \E e \in RefbookEntries, pos \in 1..(Len(refbooks) + 1) :
           CreateRefbook(e.code, e.name, pos)
    \/ \E rb \in 1..MaxRefbooks, label \in VersionLabels, start \in StartDates,
          pos \in 1..(Len(versions) + 1) :
           CreateVersion(rb, label, start, pos)
    \/ \E ver \in 1..MaxVersions, e \in ItemEntries :
           CreateItem(ver, e.code, e.value)

\* its change views
ChangeView ==
    \/ \E rb \in 1..MaxRefbooks, e \in RefbookEntries : UpdateRefbook(rb, e.code, e.name)
    \/ \E ver \in 1..MaxVersions, rb \in 1..MaxRefbooks, label \in VersionLabels,
          start \in StartDates :
           UpdateVersion(ver, rb, label, start)
    \/ \E k \in 1..Len(items), ver \in 1..MaxVersions, e \in ItemEntries :
           UpdateItem(k, ver, e.code, e.value)

\* its delete views
DeleteView ==
    \/ \E k \in 1..Len(items) : DeleteItem(k)
    \/ \E ver \in 1..MaxVersions : DeleteVersion(ver)
    \/ \E rb \in 1..MaxRefbooks : DeleteRefbook(rb)

Write ==
    \/ AddView
    \/ ChangeView
    \/ DeleteView

(* ------------------- the requests a client sends ---------------------- *)
\* texts of the catalog's date parameter, as their characters
DateTexts ==
    { <<>>,
      <<97, 98, 99>>,                                    \* abc
      <<50, 48, 50, 52, 45, 48, 50, 45, 50, 57>>,        \* 2024-02-29
      <<50, 48, 50, 52, 45, 48, 50, 45, 51, 48>>,        \* 2024-02-30
      <<50, 48, 50, 52, 45, 51, 45, 49>>,                \* 2024-3-1
      <<50, 48, 50, 52, 48, 51, 48, 49>>,                \* 20240301
      <<50, 48, 50, 52, 45, 48, 1634, 45, 50, 2415>>,    \* 2024-0. -2. with U+0662, U+096F
      <<50, 48, 50, 52, 48, 50, 50, 57, 233>> }          \* 20240229 and U+00E9
DateParams == {Absent} \cup {Given(t) : t \in DateTexts}

\* refbook ids in the path of an entry request
RequestIds == {1}

VersionParams == {Absent, Given(""), Given("1.0")}

\* code and value of a validation request
CodeValueParams ==
    { <<Given("ITEM1"), Given("Value 1")>>,
      <<Absent, Given("Value 1")>>,
      <<Given("ITEM1"), Given("")>> }

\* a call may repeat the last one; any other call follows once the last
\* exchange has been dropped (Forget)
MayCall(op, req) ==
    /\ inflight = Idle
    /\ last = NoExchange \/ (last.op = op /\ last.req = req)

\* what is kept of an exchange: the request, the response, the statements sent
\* to the store, the version served (0: none), the dates read from the clock,
\* whether the response has the outcome the whole call has on one of the states
\* the store and the clock went through during the request, whether the pairs
\* it lists are pairs the version resolved holds, or held, as a version of the
\* refbook requested, and whether a write fell into the request
Exchange(op, req, out) ==
    [op |-> op, req |-> req, resp |-> out.resp, queries |-> out.queries,
     version |-> out.version, clock |-> out.clock, single |-> out.single,
     own |-> out.own, written |-> out.written]

\* GET /refbooks/?date= : one statement
Catalog(date_param) ==
    LET req == [date |-> date_param]
    IN  \E plan \in Orders(refbooks) :
        LET out == RefbookListView_get(date_param, plan)
        IN
        /\ MayCall("catalog", req)
        /\ last' = Exchange("catalog", req,
                       [resp |-> out.resp, queries |-> out.queries, version |-> 0,
                        clock |-> <<>>, single |-> TRUE, own |-> TRUE, written |-> FALSE])
        /\ UNCHANGED <<refbooks, versions, items, nextRefbookId, nextVersionId, today, inflight>>

\* the request after its refbook lookup
Started(op, req, refbook) ==
    [pc |-> "version", op |-> op, req |-> req, refbook |-> refbook, version |-> [id |-> 0],
     element_exists |-> FALSE, queries |-> <<"refbook">>, clock |-> <<>>,
     outcomes |-> {}, held |-> {}, written |-> FALSE]

\* the request answered before its second statement
Refused(op, req, resp, queries) ==
    Exchange(op, req, [resp |-> resp, queries |-> queries, version |-> 0, clock |-> <<>>,
                       single |-> Outcome(resp) = Outcome(Instant(op, req)), own |-> TRUE,
                       written |-> FALSE])

\* the request in progress answered
Answered(resp, queries, version, clock) ==
    Exchange(inflight.op, inflight.req,
             [resp |-> resp, queries |-> queries, version |-> version, clock |-> clock,
              single |-> Outcome(resp) \in Outcomes,
              own |-> \/ inflight.op # "listEntries"
                      \/ resp.status # HTTP_200_OK
                      \/ Range(resp.data.elements) \subseteq OwnPairs,
              written |-> inflight.written])

\* BeginListEntries with the refbook fetched by get_or_create: a refbook that is
\* missing is created by the lookup
BeginListEntriesGetOrCreate(refbook_id, version_param) ==
    LET req == [id |-> refbook_id, version |-> version_param]
    IN  /\ MayCall("listEntries", req)
        /\ refbooks' = IF \E r \in Range(refbooks) : r.id = refbook_id THEN refbooks
                       ELSE Append(refbooks, [id |-> refbook_id, code |-> "", name |-> ""])
        /\ inflight' = Started("listEntries", req, [id |-> refbook_id])
        /\ UNCHANGED <<versions, items, nextRefbookId, nextVersionId, today, last>>

\* GET /refbooks/<id>/elements/?version= up to its first statement,
\* _get_refbook_or_404
BeginListEntries(refbook_id, version_param) ==
    LET req     == [id |-> refbook_id, version |-> version_param]
        refbook == get_refbook_or_404(refbook_id)
    IN  /\ MayCall("listEntries", req)
        /\ IF refbook.ok
           THEN /\ inflight' = Started("listEntries", req, refbook.row)
                /\ UNCHANGED last
           ELSE /\ last' = Refused("listEntries", req, refbook.resp, <<"refbook">>)
                /\ UNCHANGED inflight
        /\ UNCHANGED <<refbooks, versions, items, nextRefbookId, nextVersionId, today>>

\* BeginValidateEntry with the check of code and value left to the end of the
\* request: the refbook is looked up first
BeginValidateEntryLookupFirst(refbook_id, code, value, version_param) ==
    LET req     == [id |-> refbook_id, code |-> code, value |-> value, version |-> version_param]
        refbook == get_refbook_or_404(refbook_id)
    IN  /\ MayCall("validateEntry", req)
        /\ IF refbook.ok
           THEN /\ inflight' = Started("validateEntry", req, refbook.row)
                /\ UNCHANGED last
           ELSE /\ last' = Refused("validateEntry", req, refbook.resp, <<"refbook">>)
                /\ UNCHANGED inflight
        /\ UNCHANGED <<refbooks, versions, items, nextRefbookId, nextVersionId, today>>

\* GET /refbooks/<id>/check_element/?code=&value=&version= up to its first
\* statement: the check of code and value, then _get_refbook_or_404
BeginValidateEntry(refbook_id, code, value, version_param) ==
    LET req     == [id |-> refbook_id, code |-> code, value |-> value, version |-> version_param]
        refbook == get_refbook_or_404(refbook_id)
    IN  /\ MayCall("validateEntry", req)
        /\ IF ~Truthy(code) \/ ~Truthy(value)
           THEN /\ last' = Refused("validateEntry", req,
                                   Response(HTTP_400_BAD_REQUEST,
                                       [error |-> "Missing required parameters: code or/and value."]),
                                   <<>>)
                /\ UNCHANGED inflight
           ELSE IF refbook.ok
           THEN /\ inflight' = Started("validateEntry", req, refbook.row)
                /\ UNCHANGED last
           ELSE /\ last' = Refused("validateEntry", req, refbook.resp, <<"refbook">>)
                /\ UNCHANGED inflight
        /\ UNCHANGED <<refbooks, versions, items, nextRefbookId, nextVersionId, today>>

\* NowDateReads with now().date() called a second time for the log record
NowDateReadsTwice(clock, version_param) ==
    IF Truthy(version_param) THEN clock ELSE Append(Append(clock, today), today)

\* the dates read from the clock once _get_version_or_404 has run: now().date()
\* is called in the branch without a version selector
NowDateReads(clock, version_param) ==
    IF Truthy(version_param) THEN clock ELSE Append(clock, today)

\* _get_version_or_404 without selector builds its filter: now().date() is
\* read before the statement is sent
NowDate ==
    /\ inflight.pc = "version"
    /\ ~Truthy(inflight.req.version)
    /\ inflight' = [inflight EXCEPT !.pc = "select",
                                    !.clock = NowDateReads(@, inflight.req.version)]
    /\ UNCHANGED <<refbooks, versions, items, nextRefbookId, nextVersionId, today, last>>

\* the second statement of the request, the SELECT of _get_version_or_404: by
\* the label, or by the date read from the clock
SelectVersion ==
    LET req     == inflight.req
        day     == IF Truthy(req.version) THEN today ELSE inflight.clock[Len(inflight.clock)]
        version == get_version_or_404(inflight.refbook, req.version, day)
        queries == Append(inflight.queries, "version")
    IN  /\ inflight # Idle
        /\ inflight.pc = (IF Truthy(req.version) THEN "version" ELSE "select")
        /\ IF version.ok
           THEN /\ inflight' = [inflight EXCEPT !.pc = "prefetch", !.queries = queries,
                                                !.version = [id |-> version.row.id]]
                /\ UNCHANGED last
           ELSE /\ last' = Answered(version.resp, queries, 0, inflight.clock)
                /\ inflight' = Idle
        /\ UNCHANGED <<refbooks, versions, items, nextRefbookId, nextVersionId, today>>

\* prefetch_related('items'): the items of the version found are fetched by a
\* statement of their own; the views do not read what it returns
PrefetchItems ==
    /\ inflight.pc = "prefetch"
    /\ inflight' = [inflight EXCEPT !.pc = "items", !.queries = Append(@, "prefetch")]
    /\ UNCHANGED <<refbooks, versions, items, nextRefbookId, nextVersionId, today, last>>

\* the statement on the items of the version resolved:
\* version.items.only('code', 'value') serialized, or
\* version.items.filter(code, value).exists(); validateEntry with a selector has
\* version.version still to load for its log record
ReadItems ==
    LET req     == inflight.req
        queries == Append(inflight.queries, "items")
    IN  /\ inflight.pc = "items"
        /\ IF inflight.op = "listEntries"
           THEN /\ last' = Answered(Response(HTTP_200_OK,
                                        [elements |-> RefbookItemSerializer(VersionItems(inflight.version))]),
                                    queries, inflight.version.id, inflight.clock)
                /\ inflight' = Idle
           ELSE LET element_exists == ElementExists(inflight.version, req.code.text, req.value.text)
                IN  IF Truthy(req.version)
                    THEN /\ inflight' = [inflight EXCEPT !.pc = "log", !.queries = queries,
                                                         !.element_exists = element_exists]
                         /\ UNCHANGED last
                    ELSE /\ last' = Answered(Response(HTTP_200_OK, [valid |-> element_exists]),
                                             queries, inflight.version.id, inflight.clock)
                         /\ inflight' = Idle
        /\ UNCHANGED <<refbooks, versions, items, nextRefbookId, nextVersionId, today>>

\* the log record of validateEntry called with a selector: version.version is
\* loaded from the store, then the response is sent
LogValidation ==
    LET label   == DeferredVersionLabel(inflight.version)
        queries == Append(inflight.queries, "version.version")
    IN  /\ inflight.pc = "log"
        /\ last' = Answered(IF label.ok
                            THEN Response(HTTP_200_OK, [valid |-> inflight.element_exists])
                            ELSE label.resp,
                            queries, inflight.version.id, inflight.clock)
        /\ inflight' = Idle
        /\ UNCHANGED <<refbooks, versions, items, nextRefbookId, nextVersionId, today>>

\* the client drops the last exchange
Forget ==
    /\ inflight = Idle
    /\ last # NoExchange
    /\ last' = NoExchange
    /\ UNCHANGED <<refbooks, versions, items, nextRefbookId, nextVersionId, today, inflight>>

\* no write fell into the last exchange, if the client keeps one
Settled == IF last = NoExchange THEN TRUE ELSE ~last.written

\* the requests that begin, with version selector v: a new call, or one that
\* repeats a call no write fell into
Begin(v) ==
    /\ Settled
    /\ \/ \E id \in RequestIds : BeginListEntries(id, v)
       \/ \E id \in RequestIds, p \in CodeValueParams : BeginValidateEntry(id, p[1], p[2], v)

\* a listEntries request that begins, as in Begin
BeginList(v) ==
    /\ Settled
    /\ \E id \in RequestIds : BeginListEntries(id, v)

\* a validateEntry request that begins, as in Begin
BeginValidate(v) ==
    /\ Settled
    /\ \E id \in RequestIds, p \in CodeValueParams : BeginValidateEntry(id, p[1], p[2], v)

\* the requests that repeat a call a write fell into
Retry(v) ==
    /\ ~Settled
    /\ \/ \E id \in RequestIds : BeginListEntries(id, v)
       \/ \E id \in RequestIds, p \in CodeValueParams : BeginValidateEntry(id, p[1], p[2], v)

Read ==
    \/ \E d \in DateParams : Catalog(d)
    \/ \E v \in VersionParams : Begin(v)
    \/ \E v \in VersionParams : Retry(v)
    \/ NowDate
    \/ SelectVersion
    \/ PrefetchItems
    \/ ReadItems
    \/ LogValidation

Next ==
    \/ Write
    \/ Tick
    \/ Read
    \/ Forget

Spec == Init /\ [][Next]_vars

(* The store and the clock with a client of one kind: the behaviours of Spec  *)
(* in which every request is a catalog request, an entry request without      *)
(* version selector, one with an empty selector, or one with a label.         *)
NextCatalog ==
    \/ Write
    \/ Tick
    \/ \E d \in DateParams : Catalog(d)
    \/ Forget

SpecCatalog == Init /\ [][NextCatalog]_vars

NextLatest ==
    \/ Write
    \/ Tick
    \/ Begin(Absent)
    \/ NowDate
    \/ SelectVersion
    \/ PrefetchItems
    \/ ReadItems
    \/ Forget

SpecLatest == Init /\ [][NextLatest]_vars

NextEmpty ==
    \/ Write
    \/ Tick
    \/ Begin(Given(""))
    \/ NowDate
    \/ SelectVersion
    \/ PrefetchItems
    \/ ReadItems
    \/ Forget

SpecEmpty == Init /\ [][NextEmpty]_vars

NextLabel ==
    \/ Write
    \/ Tick
    \/ \E v \in VersionParams \ {Absent, Given("")} : Begin(v)
    \/ SelectVersion
    \/ PrefetchItems
    \/ ReadItems
    \/ LogValidation
    \/ Forget

SpecLabel == Init /\ [][NextLabel]_vars

(* The store and the clock with a client that asks for the catalog, lists  *)
(* the entries of the version in force and validates against a version      *)
(* given by its label: every view, and both branches of                     *)
(* _get_version_or_404.                                                     *)
NextReads ==
    \/ Write
    \/ Tick
    \/ \E d \in DateParams : Catalog(d)
    \/ BeginList(Absent)
    \/ \E v \in VersionParams \ {Absent, Given("")} : BeginValidate(v)
    \/ NowDate
    \/ SelectVersion
    \/ PrefetchItems
    \/ ReadItems
    \/ LogValidation
    \/ Forget

SpecReads == Init /\ [][NextReads]_vars

(* The store and the clock with a client that gives a label and repeats its *)
(* calls, those a write fell into too.                                      *)
NextRetry ==
    \/ Write
    \/ Tick
    \/ \E v \in VersionParams \ {Absent, Given("")} : Begin(v)
    \/ \E v \in VersionParams \ {Absent, Given("")} : Retry(v)
    \/ SelectVersion
    \/ PrefetchItems
    \/ ReadItems
    \/ LogValidation
    \/ Forget

SpecRetry == Init /\ [][NextRetry]_vars

(* ======================= properties ==================================== *)
\* a day count that orders dates as the calendar does
DayNumber(d) == d.year * 372 + d.month * 31 + d.day

\* a query parameter that is missing or empty
Missing(p) == p = Absent \/ p = Given("")

EntryCall == last # NoExchange /\ last.op \in {"listEntries", "validateEntry"}

\* no write fell into the request answered last: the store is the one all its
\* statements read
Still == last # NoExchange /\ ~last.written

\* the call got past the check of code and value
PastParameters ==
    last.op = "listEntries" \/ (~Missing(last.req.code) /\ ~Missing(last.req.value))

RefbookExists(id) == \E r \in Range(refbooks) : r.id = id

VersionsOf(id) == {v \in Range(versions) : v.refbook = id}

EffectiveOn(id, d) == {v \in VersionsOf(id) : DayNumber(v.start_date) <= DayNumber(d)}

\* the latest of a set of versions by start_date
Latest(vs) == {v \in vs : \A w \in vs : DayNumber(w.start_date) <= DayNumber(v.start_date)}

PairsOf(ver) == {[code |-> i.code, value |-> i.value] : i \in {j \in Range(items) : j.version = ver}}

\* the response is the one that version v gives: its items listed, or the pair
\* looked up among its items
ServesVersion(v) ==
    /\ last.resp.status = 200
    /\ last.version = v.id
    /\ IF last.op = "listEntries"
       THEN /\ Range(last.resp.data.elements) = PairsOf(v.id)
            /\ Len(last.resp.data.elements) = Cardinality(PairsOf(v.id))
       ELSE last.resp.data.valid =
                ([code |-> last.req.code.text, value |-> last.req.value.text] \in PairsOf(v.id))

NoEffectiveVersion(id) ==
    [status |-> 404,
     data |-> [error |-> "No valid version found for the refbook ID '" \o ToString(id) \o "'."]]

VersionNotFound(label) ==
    [status |-> 404,
     data |-> [error |-> "Version '" \o label \o "' not found for the given refbook."]]

RefbookNotFound(id) ==
    [status |-> 404, data |-> [error |-> "Refbook with ID '" \o ToString(id) \o "' not found."]]

\* C1: listEntries and validateEntry called without a version selector on an
\* existing refbook, with no write during the request, serve a version of it whose
\* start_date is on or before the date read from the clock and is the latest such
\* start_date; when the refbook has no such version (none at all, or only later
\* ones) both fail with the same 404
\* "No valid version found for the refbook ID '<id>'."
C1_LatestEffectiveVersion ==
    (EntryCall /\ PastParameters /\ last.req.version = Absent /\ Still
        /\ RefbookExists(last.req.id)) =>
        LET E == EffectiveOn(last.req.id, last.clock[1])
        IN  IF E = {}
            THEN last.resp = NoEffectiveVersion(last.req.id)
            ELSE \E v \in Latest(E) : ServesVersion(v)

\* a call without selector served the later of two versions in force
C1_Witness ==
    /\ EntryCall /\ PastParameters /\ last.req.version = Absent /\ Still
    /\ last.resp.status = 200
    /\ \E v, w \in EffectiveOn(last.req.id, last.clock[1]) :
           /\ last.version = v.id
           /\ DayNumber(w.start_date) < DayNumber(v.start_date)

\* C2: when several versions of the refbook share the latest start_date in
\* force, resolution without a selector (and with no write during the request)
\* serves the one with the highest id.
C2_TieBreakByHighestId ==
    (EntryCall /\ PastParameters /\ last.req.version = Absent /\ Still
        /\ last.resp.status = 200) =>
        \A v \in Latest(EffectiveOn(last.req.id, last.clock[1])) : v.id <= last.version

\* C3: listEntries and validateEntry called with version=L on an existing refbook,
\* with no write during the request, serve the one version of that refbook
\* labelled L, whatever its start_date; when the refbook has no version labelled L
\* they fail with 404 "Version '<L>' not found for the given refbook."
C3_ExplicitVersion ==
    (EntryCall /\ PastParameters /\ ~Missing(last.req.version) /\ Still
        /\ RefbookExists(last.req.id)) =>
        LET M == {v \in VersionsOf(last.req.id) : v.version = last.req.version.text}
        IN  IF M = {}
            THEN last.resp = VersionNotFound(last.req.version.text)
            ELSE Cardinality(M) = 1 /\ \E v \in M : ServesVersion(v)

\* a call with a label served a version that is not yet in force
C3_Witness ==
    /\ EntryCall /\ PastParameters /\ ~Missing(last.req.version) /\ Still
    /\ last.resp.status = 200
    /\ \E v \in VersionsOf(last.req.id) :
           /\ v.id = last.version
           /\ DayNumber(v.start_date) > DayNumber(today)


CatalogCall == last # NoExchange /\ last.op = "catalog"

Summary(r) == [id |-> r.id, code |-> r.code, name |-> r.name]

\* rows lists exactly the members of set, each once
ListsExactly(rows, set) == Range(rows) = set /\ Len(rows) = Cardinality(set)

\* C4: the catalog called with a valid date D lists exactly the refbooks that have
\* a version with start_date <= D, each once; called without a date it lists
\* every refbook, those without versions included.
C4_CatalogByDate ==
    CatalogCall =>
        /\ (last.req.date = Absent) =>
               /\ last.resp.status = 200
               /\ ListsExactly(last.resp.data.refbooks, {Summary(r) : r \in Range(refbooks)})
        /\ (last.req.date.given /\ parse_date(last.req.date.text).kind = "date") =>
               LET d == parse_date(last.req.date.text).date
               IN  /\ last.resp.status = 200
                   /\ ListsExactly(last.resp.data.refbooks,
                          {Summary(r) : r \in {q \in Range(refbooks) : EffectiveOn(q.id, d) # {}}})

\* the catalog with a date listed once a refbook with two versions on or before it
\* and left out another refbook
C4_Witness ==
    /\ CatalogCall
    /\ last.req.date.given /\ parse_date(last.req.date.text).kind = "date"
    /\ Len(last.resp.data.refbooks) = 1
    /\ Cardinality(EffectiveOn(last.resp.data.refbooks[1].id,
                               parse_date(last.req.date.text).date)) = 2
    /\ Len(refbooks) = 2

\* C5: for every date parameter that is no valid calendar date (empty, malformed,
\* or well formed but impossible) the catalog answers as if no date was given:
\* all refbooks with status 200.
C5_InvalidDateIgnored ==
    (CatalogCall /\ last.req.date.given /\ parse_date(last.req.date.text).kind # "date") =>
        /\ last.resp.status = 200
        /\ ListsExactly(last.resp.data.refbooks, {Summary(r) : r \in Range(refbooks)})

ValidateCall == last # NoExchange /\ last.op = "validateEntry"

ListCall == last # NoExchange /\ last.op = "listEntries"

MissingParameters ==
    [status |-> 400, data |-> [error |-> "Missing required parameters: code or/and value."]]

\* C6: validateEntry with code missing or empty, or value missing or empty, fails
\* with 400 "Missing required parameters: code or/and value." whatever the refbook
\* id and the version selector are, and reads nothing from the store.
C6_MissingParametersFirst ==
    (ValidateCall /\ (Missing(last.req.code) \/ Missing(last.req.value))) =>
        /\ last.resp = MissingParameters
        /\ last.queries = <<>>

\* a validation without code or value was refused for a refbook id that does not
\* exist, and one for a label the refbook does not have
C6_Witness ==
    /\ ValidateCall
    /\ Missing(last.req.code) \/ Missing(last.req.value)
    /\ last.resp.status = 400
    /\ \/ ~RefbookExists(last.req.id)
       \/ /\ ~Missing(last.req.version)
          /\ \A v \in VersionsOf(last.req.id) : v.version # last.req.version.text

\* the lookups of the call succeed, with no write during the request: the refbook
\* exists and the selector finds a version of it
LookupsSucceed ==
    /\ Still
    /\ RefbookExists(last.req.id)
    /\ IF Missing(last.req.version)
       THEN EffectiveOn(last.req.id, last.clock[1]) # {}
       ELSE \E v \in VersionsOf(last.req.id) : v.version = last.req.version.text

\* C7: once refbook and version lookup succeed, validateEntry answers 200 with
\* valid = TRUE exactly when the version served holds an item with that code and
\* that value; a pair held only by another version or refbook, or a code with
\* another value, gives valid = FALSE.
C7_ValidIffPairInVersion ==
    (ValidateCall /\ PastParameters /\ LookupsSucceed) =>
        /\ last.resp.status = 200
        /\ DOMAIN last.resp.data = {"valid"}
        /\ last.version \in {v.id : v \in VersionsOf(last.req.id)}
        /\ last.resp.data.valid =
               (\E i \in Range(items) : /\ i.version = last.version
                                        /\ i.code = last.req.code.text
                                        /\ i.value = last.req.value.text)

\* a validation answered FALSE: the version served holds the code with another
\* value
C7_Witness ==
    /\ ValidateCall /\ PastParameters /\ LookupsSucceed
    /\ last.resp.status = 200
    /\ last.resp.data.valid = FALSE
    /\ \E i \in Range(items) : /\ i.version = last.version
                               /\ i.code = last.req.code.text
                               /\ i.value # last.req.value.text

\* C8: a successful listEntries response holds only (code, value) pairs of items
\* of one version of the requested refbook, the one resolved: every pair it
\* lists is a pair that this version holds as a version of that refbook, or
\* held when last it was one.  With no write during the request the version
\* served is a version of the refbook and the response lists the items of that
\* version, all of them and no other.
C8_ListOneVersion ==
    (ListCall /\ last.resp.status = 200) =>
        /\ last.own
        /\ Still =>
               /\ last.version \in {v.id : v \in VersionsOf(last.req.id)}
               /\ \A k \in 1..Len(last.resp.data.elements) :
                      \E i \in Range(items) :
                          /\ i.version = last.version
                          /\ last.resp.data.elements[k] = [code |-> i.code, value |-> i.value]
               /\ ListsExactly(last.resp.data.elements, PairsOf(last.version))

\* C9: listEntries, and validateEntry with code and value given, fail with 404
\* "Refbook with ID '<id>' not found." when no refbook has the id, whatever the
\* selector; the refbook is looked up before any version, so no version is read
\* for a refbook that does not exist.
C9_RefbookLookupFirst ==
    (EntryCall /\ PastParameters) =>
        /\ last.queries # <<>> /\ last.queries[1] = "refbook"
        /\ (Still /\ ~RefbookExists(last.req.id)) =>
               /\ last.resp = RefbookNotFound(last.req.id)
               /\ last.queries = <<"refbook">>

\* a call with a label for a refbook id that does not exist, while a version with
\* that label exists
C9_Witness ==
    /\ EntryCall /\ PastParameters /\ Still
    /\ ~RefbookExists(last.req.id)
    /\ ~Missing(last.req.version)
    /\ \E v \in Range(versions) : v.version = last.req.version.text
    /\ last.resp.status = 404

\* the request resolves the latest version in force: no selector, or an empty
\* one, and it got past the check of code and value
ResolvesLatest(req, op) ==
    /\ Missing(req.version)
    /\ op = "listEntries" \/ (~Missing(req.code) /\ ~Missing(req.value))

\* a step with an exchange before it and one behind it: the exchange stays, or
\* a call that repeats it is answered (MayCall); no write fell between the two
\* calls or into the second, since a write waits for Forget
RepeatStep == last # NoExchange /\ last' # NoExchange

CatalogByDate ==
    CatalogCall /\ last.req.date.given /\ parse_date(last.req.date.text).kind = "date"

\* C12: the catalog called with a date lists the refbooks it returns by ascending
\* id, so the earliest created of them comes first.
C12_CatalogAscendingId ==
    (CatalogByDate /\ last.resp.status = 200) =>
        \A i, j \in 1..Len(last.resp.data.refbooks) :
            i < j => last.resp.data.refbooks[i].id < last.resp.data.refbooks[j].id

\* a step of one of the three views: a request is answered, or the request in
\* progress gets on by a statement
ViewStep == (last' # last /\ last' # NoExchange) \/ inflight'.pc # inflight.pc

\* C13: every step of the catalog, of listEntries and of validateEntry, to a
\* success or to an error, leaves the three tables and their keys as they were.
C13_ReadsLeaveStore ==
    [][ViewStep => UNCHANGED <<refbooks, versions, items, nextRefbookId, nextVersionId>>]_vars

\* listEntries or validateEntry failed with 404 on a store that holds rows in
\* all three tables
C13_Witness ==
    /\ EntryCall /\ PastParameters
    /\ last.resp.status = 404
    /\ refbooks # <<>> /\ versions # <<>> /\ items # <<>>

\* C14: every version belongs to a refbook in the store and every item to a
\* version in the store, whatever was created and deleted.
C14_CascadeIntegrity ==
    /\ \A v \in Range(versions) : RefbookExists(v.refbook)
    /\ \A i \in Range(items) : \E v \in Range(versions) : v.id = i.version

\* two versions of the one refbook were created and one of them is gone; the
\* version that is left still holds an item
C14_Witness ==
    /\ nextRefbookId = 2 /\ Len(refbooks) = 1
    /\ nextVersionId = 3 /\ Len(versions) = 1
    /\ items # <<>>

\* C15: no two rows of RefbookVersion agree on refbook and label, and no two
\* rows of RefbookItem agree on version and code.
C15_Uniqueness ==
    /\ \A i, j \in 1..Len(versions) :
           (versions[i].refbook = versions[j].refbook /\ versions[i].version = versions[j].version)
               => i = j
    /\ \A i, j \in 1..Len(items) :
           (items[i].version = items[j].version /\ items[i].code = items[j].code) => i = j

\* two versions of one refbook hold an item with the same code
C15_Witness ==
    \E i, j \in 1..Len(items) :
        /\ items[i].version # items[j].version
        /\ items[i].code = items[j].code
        /\ \E v, w \in Range(versions) :
               v.id = items[i].version /\ w.id = items[j].version /\ v.refbook = w.refbook

\* an entry call past the check of code and value with version= given and empty
EmptySelector == EntryCall /\ PastParameters /\ last.req.version = Given("")

\* C17: listEntries and validateEntry called with an empty version selector on
\* an existing refbook, with no write during the request, answer as without
\* selector: they serve a latest version in force, and when none is in force
\* they fail with NoEffectiveVersion, also when the refbook has versions, and
\* never with VersionNotFound.
C17_EmptySelectorAsAbsent ==
    (EmptySelector /\ Still /\ RefbookExists(last.req.id)) =>
        /\ last.resp # VersionNotFound("")
        /\ LET E == EffectiveOn(last.req.id, last.clock[1])
           IN  IF E = {}
               THEN last.resp = NoEffectiveVersion(last.req.id)
               ELSE \E v \in Latest(E) : ServesVersion(v)

\* a call with an empty selector failed with NoEffectiveVersion for a refbook
\* whose only versions start later
C17_Witness ==
    /\ EmptySelector /\ Still
    /\ VersionsOf(last.req.id) # {}
    /\ last.resp = NoEffectiveVersion(last.req.id)

\* C11: a listEntries or validateEntry request, with writes and midnight between
\* its statements, reads the date from the clock once when it resolves the latest
\* version in force, with _get_version_or_404, and not at all otherwise.
C11_ReferenceDateReadOnce ==
    /\ EntryCall =>
           Len(last.clock) =
               IF ResolvesLatest(last.req, last.op) /\ last.resp # RefbookNotFound(last.req.id)
               THEN 1 ELSE 0
    /\ inflight.pc = "version" => inflight.clock = <<>>
    /\ inflight.pc \in {"select", "prefetch", "items", "log"} =>
           Len(inflight.clock) = IF ResolvesLatest(inflight.req, inflight.op) THEN 1 ELSE 0

\* a request without selector has resolved its version before midnight and
\* is about to read the items after midnight, a write having fallen into it
C11_Witness ==
    /\ inflight.pc = "items"
    /\ ResolvesLatest(inflight.req, inflight.op)
    /\ inflight.written
    /\ Len(inflight.clock) = 1
    /\ inflight.clock[1] # today

\* C16: the response of a listEntries or validateEntry request, with writes
\* between its statements, has the outcome the whole call has on the store at one
\* of the instants of the request: it fails as the call fails at one of them, or
\* succeeds and the call succeeds at one of them.
C16_SingleInstant ==
    EntryCall => last.single

====
